---- MODULE Spec2Model ----
(***************************************************************************)
(* Task Manager backend: the cache-aside read path and write invalidation  *)
(* of the task service over a relational store and a Redis cache.          *)
(*                                                                         *)
(* Two iterations of the backend live in the repository and both are       *)
(* modelled: src/backend/routes.py (cache optional, list cache cleared     *)
(* with scan_iter) and src/backend/app.py (module-level Redis client, list *)
(* cache "cleared" with delete("tasks:*")).  The variable impl says which  *)
(* one serves the requests of a behaviour.                                 *)
(*                                                                         *)
(* Conventions: text is a sequence of one-character strings; None and the  *)
(* empty sequence coincide only where Python treats both as falsy; a       *)
(* datetime is <<t, k>> (second t of the model clock, k ticks past it),    *)
(* its isoformat() is <<t, k, "T">>; a JSON object body is a record.       *)
(***************************************************************************)
EXTENDS Integers, Sequences, FiniteSets, TLC

VARIABLES
    impl,          \* "routes" or "app": which module registered the handlers
    redis_client,  \* TRUE iff a Redis client is configured (app.redis_client truthy)
    tasks,         \* the tasks table: id -> row, for the ids present
    nextId,        \* the next primary key the store assigns
    cache,         \* Redis: key -> [val, exp, at], for the keys present
    now,           \* the clock, in seconds
    resp,          \* the last request: operation, status, body, cache calls, store reads
    req,           \* the JSON body of the last request (request.get_json())
    mut,           \* per id, the last mutation the service made of it (history)
    lapsed,        \* the keys Redis has dropped at the end of their TTL (history)
    steps,         \* the number of requests and environment events so far
    race           \* two requests in flight at once: where each one stands

vars == <<impl, redis_client, tasks, nextId, cache, now, resp, req, mut, lapsed,
          steps, race>>

---------------------------------------------------------------------------
(* Bounds of the model *)

MaxTasks == 2       \* ids the requests address: 1..MaxTasks
MaxRows == 3        \* ids the store ever assigns: 1..MaxRows
MaxClock == 60      \* the clock stops advancing here (seconds)
MaxSteps == 3       \* requests and environment events in a behaviour

(* Program constants *)

LIST_TTL == 30      \* setex(cache_key, 30, ...) in get_tasks

(* mutants of TASK_TTL: the list TTL pasted, and minutes taken for seconds *)
TASK_TTL_as_list == LIST_TTL
TASK_TTL_hour == 60 * 60

TASK_TTL == 60      \* setex(cache_key, 60, ...) in get_task

None == <<>>

---------------------------------------------------------------------------
(* Text helpers: str.strip() *)

RECURSIVE lstrip(_)
lstrip(s) == IF s # <<>> /\ Head(s) = " " THEN lstrip(Tail(s)) ELSE s

RECURSIVE rstrip(_)
rstrip(s) ==
    IF s # <<>> /\ s[Len(s)] = " " THEN rstrip(SubSeq(s, 1, Len(s) - 1)) ELSE s

strip(s) == rstrip(lstrip(s))

(* str(int) for the small integers of the model *)
str(n) == <<"0", "1", "2", "3", "4", "5", "6", "7", "8", "9">>[n + 1]

---------------------------------------------------------------------------
(* Task rows and their wire representation *)

(* A datetime is <<second, tick>>: the second of the model's clock and the *)
(* number of clock ticks (microseconds) read past it.                      *)
(* datetime.datetime.utcnow(), read k ticks after the request's first read *)
utcnow(k) == <<now, k>>

(* the ticks that may pass between two readings of the clock in one flush *)
DriftSteps == {0, 1}

isoformat(d) == IF d # None THEN d \o <<"T">> ELSE None

to_dict(row) ==
    [id           |-> row.id,
     title        |-> row.title,
     description  |-> row.description,
     completed    |-> row.completed,
     priority     |-> row.priority,
     due_date     |-> isoformat(row.due_date),
     created_at   |-> isoformat(row.created_at),
     updated_at   |-> isoformat(row.updated_at),
     completed_at |-> isoformat(row.completed_at)]

(* json.dumps / json.loads of one task dictionary: the text is modelled as *)
(* the tuple of the values in key order.                                   *)
json_dumps(d) ==
    <<d.id, d.title, d.description, d.completed, d.priority,
      d.due_date, d.created_at, d.updated_at, d.completed_at>>

json_loads(s) ==
    [id           |-> s[1],
     title        |-> s[2],
     description  |-> s[3],
     completed    |-> s[4],
     priority     |-> s[5],
     due_date     |-> s[6],
     created_at   |-> s[7],
     updated_at   |-> s[8],
     completed_at |-> s[9]]

json_dumps_list(l) == [i \in 1..Len(l) |-> json_dumps(l[i])]

---------------------------------------------------------------------------
(* Cache keys.  "task:1" is [ns |-> "task", rest |-> <<"1">>]; the list key *)
(* f"tasks:{request.query_string}" formats a bytes object, so it reads      *)
(* tasks:b'<query>' and is [ns |-> "tasks", rest |-> <<"b'", q, "'">>].     *)

TaskKey(task_id) == [ns |-> "task", rest |-> <<str(task_id)>>]

ListKey(query_string) == [ns |-> "tasks", rest |-> <<"b'", query_string, "'">>]

ListPattern == [ns |-> "tasks", rest |-> <<"*">>]

(* Redis glob matching of the one pattern the code uses, "tasks:*" *)
GlobMatch(pattern, key) ==
    /\ key.ns = pattern.ns
    /\ (pattern.rest = <<"*">> \/ pattern.rest = key.rest)

(* Redis commands on a cache content c *)
redis_setex(c, key, ttl, val) ==
    [k \in DOMAIN c \cup {key} |->
        IF k = key THEN [val |-> val, exp |-> now + ttl, at |-> now] ELSE c[k]]

redis_delete(c, keys) == [k \in DOMAIN c \ keys |-> c[k]]

redis_scan(c, pattern) == {k \in DOMAIN c : GlobMatch(pattern, k)}

---------------------------------------------------------------------------
(* The request inputs the behaviours draw from *)

Ids == 1..MaxTasks

CreateInputs ==
    { [title |-> <<"a">>],
      [title |-> <<" ", "b">>, completed |-> TRUE, priority |-> 2],
      [title |-> <<" ">>],
      [description |-> <<"d">>] }

UpdateInputs ==
    { [title |-> <<"c", " ">>],
      [completed |-> TRUE],
      [title |-> <<" ">>, completed |-> FALSE],
      <<>> }

BatchInputs ==
    { << [title |-> <<"g", " ">>],
         [description |-> <<"d">>],
         [title |-> <<" ">>],
         [title |-> None, title_is_null |-> TRUE] >> }

QueryStrings == {"", "completed=true"}

(* request.args for each query string (Flask parses it) *)
request_args(query_string) ==
    CASE query_string = "" -> <<>>
      [] query_string = "completed=true" -> [completed |-> <<"t", "r", "u", "e">>]
      [] query_string = "completed=False" ->
             [completed |-> <<"F", "a", "l", "s", "e">>]
      [] query_string = "priority=2" -> [priority |-> 2]
      [] query_string = "priority=0" -> [priority |-> 0]
      [] query_string = "search=A" -> [search |-> <<"A">>]
      [] query_string = "search=_" -> [search |-> <<"_">>]
      [] query_string = "completed=False&priority=1&search=E" ->
             [completed |-> <<"F", "a", "l", "s", "e">>, priority |-> 1,
              search |-> <<"E">>]
      [] OTHER -> <<>>

(* The store during a request that writes: "ok", "down" (unreachable from  *)
(* the first query on) or "commit_fails".  The behaviours draw from:       *)
DbStates == {"ok", "commit_fails"}

(* dict.get(key, default) *)
dict_get(data, key, default) == IF key \in DOMAIN data THEN data[key] ELSE default

(* str.lower() on the letters the model uses *)
lower_char(c) ==
    CASE c = "A" -> "a" [] c = "B" -> "b" [] c = "C" -> "c" [] c = "E" -> "e"
      [] c = "F" -> "f" [] c = "T" -> "t" [] c = "R" -> "r" [] c = "U" -> "u"
      [] c = "L" -> "l" [] c = "S" -> "s" [] OTHER -> c

lower(s) == [i \in 1..Len(s) |-> lower_char(s[i])]

(* needle in haystack, for sequences *)
contains(haystack, needle) ==
    \E i \in 0..(Len(haystack) - Len(needle)) :
        SubSeq(haystack, i + 1, i + Len(needle)) = needle

(* SQL LIKE: in the pattern "%" stands for any run of characters and "_"   *)
(* for any one character                                                   *)
RECURSIVE like(_, _)
like(s, pattern) ==
    IF pattern = <<>> THEN s = <<>>
    ELSE IF Head(pattern) = "%"
    THEN like(s, Tail(pattern)) \/ (s # <<>> /\ like(Tail(s), pattern))
    ELSE /\ s # <<>>
         /\ (Head(pattern) = "_" \/ Head(pattern) = Head(s))
         /\ like(Tail(s), Tail(pattern))

(* Task.title.ilike(f"%{search}%") *)
ilike(s, search) == like(lower(s), lower(<<"%">> \o search \o <<"%">>))

(* datetime.fromisoformat on the due_date strings of the model: a string is *)
(* a sequence of tokens, "D" a well-formed local date-time, "Z" and         *)
(* "+00:00" zone suffixes, anything else malformed.                         *)
replace_Z(s) == [i \in 1..Len(s) |-> IF s[i] = "Z" THEN "+00:00" ELSE s[i]]

fromisoformat_ok(s) == s = <<"D">> \/ s = <<"D", "+00:00">>

fromisoformat(s) == <<1000, 0>>

---------------------------------------------------------------------------
(* The response record of a request *)

Response(op, id, status, body, calls, reads, db) ==
    [op |-> op, id |-> id, status |-> status, body |-> body,
     calls |-> calls, reads |-> reads, db |-> db]

Error(msg) == [error |-> msg]

AllOk(calls) == \A i \in 1..Len(calls) : calls[i].ok

NoMutation == [kind |-> "none", inval |-> TRUE, had |-> FALSE, seen |-> FALSE]

(* Task.query.get(task_id) *)
Exists(task_id) == task_id \in DOMAIN tasks

---------------------------------------------------------------------------
(* GET /api/tasks/<id> *)

(* mutant of use_cache: the guard on the client dropped *)
use_cache_always == TRUE

(* hasattr(app, "redis_client") and app.redis_client *)
use_cache == redis_client

(* mutants of cache_lookup: the lookup skipped; the inner except missing *)
cache_lookup_never_hits(task_id, rget) == "miss"

cache_lookup_raises(task_id, rget) ==
    IF ~use_cache THEN "miss"
    ELSE IF ~rget THEN "error"
    ELSE IF TaskKey(task_id) \in DOMAIN cache THEN "hit"
    ELSE "miss"

(* The guarded lookup of get_task: "hit" when Redis answers with a value,  *)
(* "miss" when it has none, is not configured, or the call raises (the     *)
(* inner except swallows it).  "error" stands for an exception leaving the *)
(* block, which the handler's outer except turns into a 500.               *)
cache_lookup(task_id, rget) ==
    IF ~use_cache THEN "miss"
    ELSE IF ~rget THEN "miss"
    ELSE IF TaskKey(task_id) \in DOMAIN cache THEN "hit"
    ELSE "miss"

DbOf(dbOk) == IF dbOk THEN "ok" ELSE "down"

get_task(task_id, rget, rset, dbOk) ==
    LET key    == TaskKey(task_id)
        calls1 == IF use_cache
                  THEN << [fn |-> "get", key |-> key, ok |-> rget] >>
                  ELSE <<>>
        found  == cache_lookup(task_id, rget)
    IN  /\ mut' = [mut EXCEPT ![task_id].seen = TRUE]
        /\ UNCHANGED <<impl, redis_client, tasks, nextId, now>>
        /\ IF found = "hit"
           THEN /\ resp' = Response("get_task", task_id, 200,
                                    json_loads(cache[key].val), calls1, 0,
                                    DbOf(dbOk))
                /\ UNCHANGED cache
           ELSE IF found = "error"
           THEN /\ resp' = Response("get_task", task_id, 500,
                                    Error("Failed to fetch task"), calls1, 0,
                                    DbOf(dbOk))
                /\ UNCHANGED cache
           ELSE IF ~dbOk
           THEN /\ resp' = Response("get_task", task_id, 500,
                                    Error("Failed to fetch task"), calls1, 1,
                                    DbOf(dbOk))
                /\ UNCHANGED cache
           ELSE IF Exists(task_id)
           THEN LET task_dict == to_dict(tasks[task_id])
                    calls2 == IF use_cache
                              THEN calls1 \o
                                   << [fn |-> "setex", key |-> key, ok |-> rset] >>
                              ELSE calls1
                IN  /\ resp' = Response("get_task", task_id, 200, task_dict,
                                        calls2, 1, DbOf(dbOk))
                    /\ cache' = IF use_cache /\ rset
                                THEN redis_setex(cache, key, TASK_TTL,
                                                 json_dumps(task_dict))
                                ELSE cache
           ELSE /\ resp' = Response("get_task", task_id, 404,
                                    Error("Task not found"), calls1, 1,
                                    DbOf(dbOk))
                /\ UNCHANGED cache

---------------------------------------------------------------------------
(* GET /api/tasks *)

(* the rows the query selects *)
query_filter(args) ==
    LET completed == dict_get(args, "completed", None)
        priority  == dict_get(args, "priority", 0)
        search    == dict_get(args, "search", None)
    IN  { id \in DOMAIN tasks :
            /\ ("completed" \in DOMAIN args =>
                    tasks[id].completed = (lower(completed) = <<"t", "r", "u", "e">>))
            /\ (priority # 0 => tasks[id].priority = priority)
            /\ (search # <<>> => ilike(tasks[id].title, search)) }

(* mutant of query_orders: the rows in ascending order of created_at *)
query_orders_ascending(ids) ==
    { o \in [1..Cardinality(ids) -> ids] :
        /\ \A i, j \in DOMAIN o : i # j => o[i] # o[j]
        /\ \A i, j \in DOMAIN o :
              i < j => tasks[o[i]].created_at[1] <= tasks[o[j]].created_at[1] }

(* the orders ORDER BY created_at DESC allows for a set of rows *)
query_orders(ids) ==
    { o \in [1..Cardinality(ids) -> ids] :
        /\ \A i, j \in DOMAIN o : i # j => o[i] # o[j]
        /\ \A i, j \in DOMAIN o :
              i < j => tasks[o[i]].created_at[1] >= tasks[o[j]].created_at[1] }

(* mutant of list_source: the cached list served when the key holds one *)
list_source_cached(query_string, rows) ==
    IF use_cache /\ ListKey(query_string) \in DOMAIN cache
    THEN [i \in 1..Len(cache[ListKey(query_string)].val) |->
             json_loads(cache[ListKey(query_string)].val[i])]
    ELSE rows

(* what the response and the cache entry are built from: the rows of       *)
(* query.all(); the handler never looks the list up in the cache           *)
list_source(query_string, rows) == rows

get_tasks(query_string, rset, dbOk) ==
    /\ UNCHANGED <<impl, redis_client, tasks, nextId, now, mut>>
    /\ IF ~dbOk
       THEN /\ resp' = Response("get_tasks", 0, 500,
                                Error("Failed to fetch tasks"), <<>>, 1, "down")
            /\ UNCHANGED cache
       ELSE \E o \in query_orders(query_filter(request_args(query_string))) :
            LET dicts == list_source(query_string,
                                     [i \in DOMAIN o |-> to_dict(tasks[o[i]])])
                key   == ListKey(query_string)
                calls == IF use_cache
                         THEN << [fn |-> "setex", key |-> key, ok |-> rset] >>
                         ELSE <<>>
            IN  /\ resp' = Response("get_tasks", 0, 200, [items |-> dicts],
                                    calls, 1, "ok")
                /\ cache' = IF use_cache /\ rset
                            THEN redis_setex(cache, key, LIST_TTL,
                                             json_dumps_list(dicts))
                            ELSE cache

---------------------------------------------------------------------------
(* Cache invalidation after a commit.  item_keys are the single-item keys  *)
(* the handler deletes first (none for create and batch create); order is  *)
(* the order in which scan_iter yields the list keys; failAt is the index  *)
(* of the cache call that raises (0: none does).  The calls sit in one try *)
(* block, so nothing follows the call that raises.                         *)

planned_calls(item_keys, order) ==
    LET dels == [i \in 1..Len(item_keys) |-> [fn |-> "delete", key |-> item_keys[i]]]
    IN  IF impl = "routes"
        THEN dels \o << [fn |-> "scan_iter", key |-> ListPattern] >>
                  \o [i \in 1..Len(order) |-> [fn |-> "delete", key |-> order[i]]]
        ELSE dels \o << [fn |-> "delete", key |-> ListPattern] >>

executed_calls(planned, failAt) ==
    [i \in 1..(IF failAt = 0 THEN Len(planned) ELSE failAt) |->
        [fn |-> planned[i].fn, key |-> planned[i].key, ok |-> i # failAt]]

invalidate_calls(item_keys, order, failAt) ==
    IF use_cache
    THEN executed_calls(planned_calls(item_keys, order), failAt)
    ELSE <<>>

(* mutant of invalidation_raises: the except clause missing *)
invalidation_raises_on_failure(calls) == \E i \in 1..Len(calls) : ~calls[i].ok

(* Whether an exception of the invalidation leaves its try block: the      *)
(* except clause around it logs a warning and swallows every exception.    *)
invalidation_raises(calls) == FALSE

deleted_keys(calls) ==
    { calls[i].key : i \in { j \in 1..Len(calls) :
                               calls[j].fn = "delete" /\ calls[j].ok } }

(* the orders scan_iter may yield the list keys in *)
scan_orders ==
    LET keys == redis_scan(cache, ListPattern)
    IN  { o \in [1..Cardinality(keys) -> keys] :
            \A i, j \in DOMAIN o : i # j => o[i] # o[j] }

(* mutant of pre_commit_calls: the invalidation issued before the commit *)
pre_commit_calls_eager(item_keys, order, failAt) ==
    invalidate_calls(item_keys, order, failAt)

(* The cache calls a mutation has issued when its commit raises: none, the *)
(* invalidation block follows db.session.commit().                         *)
pre_commit_calls(item_keys, order, failAt) == <<>>

(* mutant of rollback: the flushed changes stay in the store *)
rollback_keeps_changes(before, attempted) == attempted

(* db.session.rollback() in the handler's except clause: the store keeps   *)
(* the rows it had before the transaction, whatever the session attempted. *)
rollback(before, attempted) == before

(* mutant of insert_rows: only the first added row reaches the store *)
insert_rows_first_only(rows, added) ==
    [id \in DOMAIN rows \cup {added[k].id : k \in 1..Len(added) \cap {1}} |->
        IF id \in DOMAIN rows THEN rows[id] ELSE added[1]]

(* db.session.add(task) for each of added, then one db.session.commit() *)
insert_rows(rows, added) ==
    [id \in DOMAIN rows \cup {added[k].id : k \in 1..Len(added)} |->
        IF \E k \in 1..Len(added) : added[k].id = id
        THEN added[CHOOSE k \in 1..Len(added) : added[k].id = id]
        ELSE rows[id]]

(* the indexes at which a call of the invalidation can raise *)
fail_points(item_keys, order) ==
    IF use_cache THEN 0..Len(planned_calls(item_keys, order)) ELSE {0}

---------------------------------------------------------------------------
(* due_date parsing.  routes.py normalises a Z suffix and tolerates a      *)
(* malformed string; app.py parses the string as it is and lets the        *)
(* ValueError reach the handler's except ValueError clause (400).          *)

due_date_raises(data) ==
    /\ impl = "app"
    /\ dict_get(data, "due_date", None) # None
    /\ ~fromisoformat_ok(data.due_date)

parse_due_date(data, otherwise) ==
    LET s == IF impl = "routes" THEN replace_Z(data.due_date) ELSE data.due_date
    IN  IF fromisoformat_ok(s) THEN fromisoformat(s) ELSE otherwise

---------------------------------------------------------------------------
(* POST /api/tasks *)

(* mutant of create_valid: the title tested without trimming it *)
create_valid_untrimmed(data) ==
    /\ data # <<>>
    /\ "title" \in DOMAIN data
    /\ data.title # <<>>

create_valid(data) ==
    /\ data # <<>>
    /\ "title" \in DOMAIN data
    /\ strip(data.title) # <<>>

(* mutant of new_task: a task created completed gets completed_at stamped *)
new_task_stamps_completed(data, later) ==
    [id           |-> nextId,
     title        |-> strip(data.title),
     description  |-> strip(dict_get(data, "description", <<>>)),
     completed    |-> dict_get(data, "completed", FALSE),
     priority     |-> dict_get(data, "priority", 1),
     due_date     |-> IF dict_get(data, "due_date", None) # None
                      THEN parse_due_date(data, None)
                      ELSE None,
     created_at   |-> utcnow(0),
     updated_at   |-> utcnow(later),
     completed_at |-> IF dict_get(data, "completed", FALSE)
                      THEN utcnow(0) ELSE None,
     user_id      |-> None]

(* created_at and updated_at have each their own column default, a call of *)
(* utcnow at the INSERT: later is the ticks between the two readings.      *)
new_task(data, later) ==
    [id           |-> nextId,
     title        |-> strip(data.title),
     description  |-> strip(dict_get(data, "description", <<>>)),
     completed    |-> dict_get(data, "completed", FALSE),
     priority     |-> dict_get(data, "priority", 1),
     due_date     |-> IF dict_get(data, "due_date", None) # None
                      THEN parse_due_date(data, None)
                      ELSE None,
     created_at   |-> utcnow(0),
     updated_at   |-> utcnow(later),
     completed_at |-> None,
     user_id      |-> None]

(* The response after the commit: the success response, unless an          *)
(* exception left the invalidation block and reached the outer except      *)
(* (rollback of the already committed transaction, 500).                   *)
after_commit(op, id, status, body, failure, calls, reads) ==
    IF invalidation_raises(calls)
    THEN Response(op, id, 500, Error(failure), calls, reads, "ok")
    ELSE Response(op, id, status, body, calls, reads, "ok")

Created == [kind |-> "create", inval |-> TRUE, had |-> FALSE, seen |-> FALSE]

create_task(data, db, order, failAt, later) ==
    /\ UNCHANGED <<impl, redis_client, now>>
    /\ IF data = <<>>
       THEN /\ resp' = Response("create_task", 0, 400, Error("No data provided"),
                                <<>>, 0, db)
            /\ UNCHANGED <<tasks, nextId, cache, mut>>
       ELSE IF ~create_valid(data)
       THEN /\ resp' = Response("create_task", 0, 400, Error("Title is required"),
                                <<>>, 0, db)
            /\ UNCHANGED <<tasks, nextId, cache, mut>>
       ELSE IF due_date_raises(data)
       THEN /\ resp' = Response("create_task", 0, 400, Error("Invalid data format"),
                                <<>>, 0, db)
            /\ UNCHANGED <<tasks, nextId, cache, mut>>
       ELSE IF db # "ok"
       THEN LET calls == pre_commit_calls(<<>>, order, failAt)
            IN  /\ tasks' = rollback(tasks, insert_rows(tasks, <<new_task(data, later)>>))
                /\ cache' = redis_delete(cache, deleted_keys(calls))
                /\ resp' = Response("create_task", 0, 500,
                                    Error("Failed to create task"), calls, 0, db)
                /\ UNCHANGED <<nextId, mut>>
       ELSE LET task  == new_task(data, later)
                calls == invalidate_calls(<<>>, order, failAt)
            IN  /\ nextId <= MaxRows
                /\ tasks' = insert_rows(tasks, <<task>>)
                /\ nextId' = nextId + 1
                /\ cache' = redis_delete(cache, deleted_keys(calls))
                /\ resp' = after_commit("create_task", task.id, 201, to_dict(task),
                                        "Failed to create task", calls, 0)
                /\ mut' = [id \in Ids |-> IF id = nextId THEN Created ELSE mut[id]]

---------------------------------------------------------------------------
(* PUT /api/tasks/<id> *)

(* mutant of apply_patch: completed_at stamped or cleared whenever the     *)
(* patch carries completed, the comparison with the stored value dropped   *)
apply_patch_always_stamps(task, data) ==
    LET t1 == IF "title" \in DOMAIN data
              THEN [task EXCEPT !.title = strip(data.title)] ELSE task
        t2 == IF "description" \in DOMAIN data
              THEN [t1 EXCEPT !.description = strip(data.description)] ELSE t1
        t3 == IF "completed" \in DOMAIN data
              THEN [t2 EXCEPT !.completed = data.completed,
                              !.completed_at =
                                  IF data.completed THEN utcnow(0) ELSE None]
              ELSE t2
        t4 == IF "priority" \in DOMAIN data
              THEN [t3 EXCEPT !.priority = data.priority] ELSE t3
        t5 == IF "due_date" \in DOMAIN data
              THEN [t4 EXCEPT !.due_date =
                       IF data.due_date # None
                       THEN parse_due_date(data, None) ELSE None]
              ELSE t4
    IN  t5

(* mutant of apply_patch: a field the patch leaves out falls back to its   *)
(* default, as if the body were the whole task                             *)
apply_patch_replaces(task, data) ==
    LET t1 == IF "title" \in DOMAIN data
              THEN [task EXCEPT !.title = strip(data.title)] ELSE task
        t2 == IF "description" \in DOMAIN data
              THEN [t1 EXCEPT !.description = strip(data.description)] ELSE t1
        t3 == IF "completed" \in DOMAIN data /\ data.completed # t2.completed
              THEN [t2 EXCEPT !.completed = data.completed,
                              !.completed_at =
                                  IF data.completed THEN utcnow(0) ELSE None]
              ELSE t2
        t4 == [t3 EXCEPT !.priority = dict_get(data, "priority", 1)]
        t5 == [t4 EXCEPT !.due_date =
                  IF dict_get(data, "due_date", None) # None
                  THEN parse_due_date(data, None) ELSE None]
    IN  t5

(* the field assignments of the handler, in its order *)
apply_patch(task, data) ==
    LET t1 == IF "title" \in DOMAIN data
              THEN [task EXCEPT !.title = strip(data.title)] ELSE task
        t2 == IF "description" \in DOMAIN data
              THEN [t1 EXCEPT !.description = strip(data.description)] ELSE t1
        t3 == IF "completed" \in DOMAIN data /\ data.completed # t2.completed
              THEN [t2 EXCEPT !.completed = data.completed,
                              !.completed_at =
                                  IF data.completed THEN utcnow(0) ELSE None]
              ELSE t2
        t4 == IF "priority" \in DOMAIN data
              THEN [t3 EXCEPT !.priority = data.priority] ELSE t3
        t5 == IF "due_date" \in DOMAIN data
              THEN [t4 EXCEPT !.due_date =
                       IF data.due_date # None
                       THEN parse_due_date(data, None) ELSE None]
              ELSE t4
    IN  t5

(* mutant of flush_update: every timestamp of the row stamped at the flush *)
flush_update_stamps_all(task, patched) ==
    IF patched # task
    THEN [patched EXCEPT !.updated_at = utcnow(0), !.created_at = utcnow(0)]
    ELSE task

(* the commit: the UPDATE is emitted, and onupdate stamps updated_at, only *)
(* when some column changed                                                *)
flush_update(task, patched) ==
    IF patched # task THEN [patched EXCEPT !.updated_at = utcnow(0)] ELSE task

item_invalidated(calls) == calls = <<>> \/ calls[1].ok

(* mutant of item_keys: the single-item key left in the cache *)
item_keys_none(task_id) == <<>>

(* the single-item keys update_task and delete_task delete *)
item_keys(task_id) == <<TaskKey(task_id)>>

(* mutant of update_precheck: an empty body is let through *)
update_precheck_accepts_empty(task_id, data) ==
    IF ~Exists(task_id) THEN "not_found" ELSE "ok"

(* mutant of update_precheck: the body validated before the lookup *)
update_precheck_body_first(task_id, data) ==
    IF data = <<>> THEN "no_data"
    ELSE IF ~Exists(task_id) THEN "not_found"
    ELSE "ok"

(* the checks before any field is assigned: the row is looked up first,    *)
(* the request body is read and tested after it                            *)
update_precheck(task_id, data) ==
    IF ~Exists(task_id) THEN "not_found"
    ELSE IF data = <<>> THEN "no_data"
    ELSE "ok"

(* mutant of update_cache: a write-through of the patched row *)
update_cache_writes_through(c, task_id, task, calls) ==
    IF use_cache
    THEN redis_setex(redis_delete(c, deleted_keys(calls)), TaskKey(task_id),
                     TASK_TTL, json_dumps(to_dict(task)))
    ELSE c

(* what update_task does to the cache after the commit: it deletes, and    *)
(* writes nothing                                                          *)
update_cache(c, task_id, task, calls) == redis_delete(c, deleted_keys(calls))

update_task(task_id, data, db, order, failAt) ==
    /\ UNCHANGED <<impl, redis_client, nextId, now>>
    /\ IF db = "down"
       THEN /\ resp' = Response("update_task", task_id, 500,
                                Error("Failed to update task"), <<>>, 1, db)
            /\ UNCHANGED <<tasks, cache, mut>>
       ELSE IF update_precheck(task_id, data) = "not_found"
       THEN /\ resp' = Response("update_task", task_id, 404,
                                Error("Task not found"), <<>>, 1, db)
            /\ UNCHANGED <<tasks, cache, mut>>
       ELSE IF update_precheck(task_id, data) = "no_data"
       THEN /\ resp' = Response("update_task", task_id, 400,
                                Error("No data provided"), <<>>, 1, db)
            /\ UNCHANGED <<tasks, cache, mut>>
       ELSE IF due_date_raises(data)
       THEN /\ resp' = Response("update_task", task_id, 400,
                                Error("Invalid data format"), <<>>, 1, db)
            /\ UNCHANGED <<tasks, cache, mut>>
       ELSE IF db = "commit_fails"
       THEN LET task  == flush_update(tasks[task_id],
                                      apply_patch(tasks[task_id], data))
                calls == pre_commit_calls(item_keys(task_id), order, failAt)
            IN  /\ tasks' = rollback(tasks, [tasks EXCEPT ![task_id] = task])
                /\ cache' = redis_delete(cache, deleted_keys(calls))
                /\ resp' = Response("update_task", task_id, 500,
                                    Error("Failed to update task"), calls, 1, db)
                /\ UNCHANGED mut
       ELSE LET task  == flush_update(tasks[task_id],
                                      apply_patch(tasks[task_id], data))
                calls == invalidate_calls(item_keys(task_id), order, failAt)
            IN  /\ tasks' = [tasks EXCEPT ![task_id] = task]
                /\ cache' = update_cache(cache, task_id, task, calls)
                /\ resp' = after_commit("update_task", task_id, 200, to_dict(task),
                                        "Failed to update task", calls, 1)
                /\ mut' = [mut EXCEPT ![task_id] =
                              [kind |-> "update",
                               inval |-> item_invalidated(calls),
                               had |-> TaskKey(task_id) \in DOMAIN cache,
                               seen |-> FALSE]]

---------------------------------------------------------------------------
(* DELETE /api/tasks/<id> *)

(* mutant of delete_row: the row never deleted *)
delete_row_kept(task_id) == tasks

(* db.session.delete(task); db.session.commit() *)
delete_row(task_id) == [id \in DOMAIN tasks \ {task_id} |-> tasks[id]]

delete_task(task_id, db, order, failAt) ==
    /\ UNCHANGED <<impl, redis_client, nextId, now>>
    /\ IF db = "down"
       THEN /\ resp' = Response("delete_task", task_id, 500,
                                Error("Failed to delete task"), <<>>, 1, db)
            /\ UNCHANGED <<tasks, cache, mut>>
       ELSE IF ~Exists(task_id)
       THEN /\ resp' = Response("delete_task", task_id, 404,
                                Error("Task not found"), <<>>, 1, db)
            /\ UNCHANGED <<tasks, cache, mut>>
       ELSE IF db = "commit_fails"
       THEN LET calls == pre_commit_calls(item_keys(task_id), order, failAt)
            IN  /\ tasks' = rollback(tasks, delete_row(task_id))
                /\ cache' = redis_delete(cache, deleted_keys(calls))
                /\ resp' = Response("delete_task", task_id, 500,
                                    Error("Failed to delete task"), calls, 1, db)
                /\ UNCHANGED mut
       ELSE LET calls == invalidate_calls(item_keys(task_id), order, failAt)
            IN  /\ tasks' = delete_row(task_id)
                /\ cache' = redis_delete(cache, deleted_keys(calls))
                /\ resp' = after_commit("delete_task", task_id, 200,
                                        [message |-> "Task deleted successfully"],
                                        "Failed to delete task", calls, 1)
                /\ mut' = [mut EXCEPT ![task_id] =
                              [kind |-> "delete",
                               inval |-> item_invalidated(calls),
                               had |-> TaskKey(task_id) \in DOMAIN cache,
                               seen |-> FALSE]]

---------------------------------------------------------------------------
(* POST /api/tasks/batch *)

(* A JSON null title is written [title |-> None, title_is_null |-> TRUE],  *)
(* None being also the empty text: task_data["title"].strip() raises       *)
(* AttributeError on it, inside the per-item try.                          *)
item_raises(task_data) ==
    "title" \in DOMAIN task_data /\ dict_get(task_data, "title_is_null", FALSE)

(* the items a Task is constructed and added to the session from *)
item_constructed(task_data) ==
    "title" \in DOMAIN task_data /\ ~item_raises(task_data)

(* the error entry text of an item that is not constructed *)
item_error(task_data) ==
    IF "title" \notin DOMAIN task_data
    THEN "Title required"
    ELSE "'NoneType' object has no attribute 'strip'"

(* mutant of titled_from: the loop left at the first item in error *)
RECURSIVE titled_from_until_error(_, _)
titled_from_until_error(items, i) ==
    IF i > Len(items) \/ ~item_constructed(items[i]) THEN <<>>
    ELSE <<i>> \o titled_from_until_error(items, i + 1)

(* the indexes (from 1) of the constructed items, in input order *)
RECURSIVE titled_from(_, _)
titled_from(items, i) ==
    IF i > Len(items) THEN <<>>
    ELSE (IF item_constructed(items[i]) THEN <<i>> ELSE <<>>)
         \o titled_from(items, i + 1)

(* the indexes (from 1) of the items recorded in errors, in input order *)
RECURSIVE untitled_from(_, _)
untitled_from(items, i) ==
    IF i > Len(items) THEN <<>>
    ELSE (IF item_constructed(items[i]) THEN <<>> ELSE <<i>>)
         \o untitled_from(items, i + 1)

(* mutant of batch_task: the priority taken from the item, as create_task *)
(* takes it                                                                *)
batch_task_takes_priority(task_data, id) ==
    [id           |-> id,
     title        |-> strip(task_data.title),
     description  |-> strip(dict_get(task_data, "description", <<>>)),
     completed    |-> dict_get(task_data, "completed", FALSE),
     priority     |-> dict_get(task_data, "priority", 1),
     due_date     |-> None,
     created_at   |-> utcnow(0),
     updated_at   |-> utcnow(0),
     completed_at |-> None,
     user_id      |-> None]

(* the rows of one batch are stamped at the first reading of the clock *)
batch_task(task_data, id) ==
    [id           |-> id,
     title        |-> strip(task_data.title),
     description  |-> strip(dict_get(task_data, "description", <<>>)),
     completed    |-> dict_get(task_data, "completed", FALSE),
     priority     |-> 1,
     due_date     |-> None,
     created_at   |-> utcnow(0),
     updated_at   |-> utcnow(0),
     completed_at |-> None,
     user_id      |-> None]

batch_create_tasks(items, db, order, failAt) ==
    LET good    == titled_from(items, 1)
        bad     == untitled_from(items, 1)
        created == [k \in 1..Len(good) |-> batch_task(items[good[k]], nextId + k - 1)]
        errors  == [k \in 1..Len(bad) |->
                       [index |-> bad[k] - 1, error |-> item_error(items[bad[k]])]]
        calls   == invalidate_calls(<<>>, order, failAt)
        newIds  == {created[k].id : k \in 1..Len(created)}
    IN  /\ UNCHANGED <<impl, redis_client, now>>
        /\ IF db # "ok"
           THEN LET early == pre_commit_calls(<<>>, order, failAt)
                IN  /\ tasks' = rollback(tasks, insert_rows(tasks, created))
                    /\ cache' = redis_delete(cache, deleted_keys(early))
                    /\ resp' = Response("batch_create_tasks", 0, 500,
                                        Error("Failed to create tasks"), early, 0, db)
                    /\ UNCHANGED <<nextId, mut>>
           ELSE /\ nextId + Len(created) - 1 <= MaxRows
                /\ tasks' = insert_rows(tasks, created)
                /\ nextId' = nextId + Len(created)
                /\ cache' = redis_delete(cache, deleted_keys(calls))
                /\ resp' = after_commit("batch_create_tasks", 0, 201,
                                        [created |-> [k \in 1..Len(created) |->
                                                         to_dict(created[k])],
                                         errors |-> errors,
                                         total_created |-> Len(created),
                                         total_errors |-> Len(errors)],
                                        "Failed to create tasks", calls, 0)
                /\ mut' = [id \in Ids |->
                              IF id \in newIds THEN Created ELSE mut[id]]

---------------------------------------------------------------------------
(* GET /api/stats *)

(* Task.query.filter_by(completed=...) and filter_by(priority=...): the ids *)
(* of the rows selected                                                    *)
filter_by_completed(completed) ==
    {id \in DOMAIN tasks : tasks[id].completed = completed}

filter_by_priority(priority) ==
    {id \in DOMAIN tasks : tasks[id].priority = priority}

(* Query.count() *)
count(ids) == Cardinality(ids)

RECURSIVE gcd(_, _)
gcd(a, b) == IF b = 0 THEN a ELSE gcd(b, a % b)

(* a quotient a / b of naturals, b > 0, kept exact: <<numerator,           *)
(* denominator>> in lowest terms                                           *)
ratio(a, b) == <<a \div gcd(a, b), b \div gcd(a, b)>>

(* mutant of completion_rate: the fraction returned, not the percentage *)
completion_rate_fraction(completed_tasks, total_tasks) ==
    IF total_tasks > 0 THEN ratio(completed_tasks, total_tasks) ELSE ratio(0, 1)

(* (completed_tasks / total_tasks * 100) if total_tasks > 0 else 0 *)
completion_rate(completed_tasks, total_tasks) ==
    IF total_tasks > 0 THEN ratio(completed_tasks * 100, total_tasks)
    ELSE ratio(0, 1)

(* the dictionary {1: ..., 2: ..., 3: ...}; jsonify writes its integer     *)
(* keys as strings                                                         *)
priority_counts ==
    [k \in {str(1), str(2), str(3)} |->
        count(filter_by_priority(CHOOSE p \in 1..3 : str(p) = k))]

(* db.func.date(...) and datetime.date(): the day a second falls on *)
date(d) == d[1] \div (24 * 60 * 60)

(* mutant of stats_cache_calls: the statistics kept in the cache *)
stats_cache_calls_memoised ==
    IF use_cache
    THEN << [fn |-> "setex", key |-> [ns |-> "stats", rest |-> <<>>], ok |-> TRUE] >>
    ELSE <<>>

(* the cache calls of get_stats: the handler has none *)
stats_cache_calls == <<>>

get_stats(dbOk) ==
    /\ UNCHANGED <<impl, redis_client, tasks, nextId, now, mut>>
    /\ IF ~dbOk
       THEN /\ resp' = Response("get_stats", 0, 500,
                                Error("Failed to fetch statistics"), <<>>, 1, "down")
            /\ UNCHANGED cache
       ELSE LET total_tasks     == count(DOMAIN tasks)
                completed_tasks == count(filter_by_completed(TRUE))
                pending_tasks   == total_tasks - completed_tasks
                today           == date(utcnow(0))
                calls           == stats_cache_calls
                stats ==
                    [total_tasks         |-> total_tasks,
                     completed_tasks     |-> completed_tasks,
                     pending_tasks       |-> pending_tasks,
                     completion_rate     |-> completion_rate(completed_tasks,
                                                             total_tasks),
                     priority_breakdown  |-> priority_counts,
                     tasks_created_today |->
                         count({id \in DOMAIN tasks :
                                   date(tasks[id].created_at) = today}),
                     timestamp           |-> isoformat(utcnow(0))]
            IN  /\ resp' = Response("get_stats", 0, 200, stats, calls, 6, "ok")
                /\ cache' = IF calls = <<>> THEN cache
                            ELSE redis_setex(cache, calls[1].key, LIST_TTL, <<>>)

---------------------------------------------------------------------------
(* GET /health *)

(* mutant of redis_service: a service without a cache reported unhealthy *)
redis_service_required(rping) ==
    IF use_cache /\ rping THEN "connected" ELSE "disconnected"

(* services["redis"]: routes.py pings only a configured client, app.py its *)
(* module-level client                                                     *)
redis_service(rping) ==
    IF ~use_cache THEN "not_configured"
    ELSE IF rping THEN "connected"
    ELSE "disconnected"

(* status_code = 200 if health_status["status"] == "healthy" else 500 *)
health_status_code(status) == IF status = "healthy" THEN 200 ELSE 500

health_check(dbOk, rping) ==
    LET database == IF dbOk THEN "connected" ELSE "disconnected"
        redis    == redis_service(rping)
        status   == IF database = "disconnected" \/ redis = "disconnected"
                    THEN "unhealthy" ELSE "healthy"
        calls    == IF redis = "not_configured" THEN <<>>
                    ELSE << [fn |-> "ping", key |-> [ns |-> "", rest |-> <<>>],
                             ok |-> rping] >>
    IN  /\ resp' = Response("health_check", 0, health_status_code(status),
                            [status    |-> status,
                             timestamp |-> isoformat(utcnow(0)),
                             services  |-> [database |-> database,
                                            redis    |-> redis]],
                            calls, 1, DbOf(dbOk))
        /\ UNCHANGED <<impl, redis_client, tasks, nextId, cache, now, mut>>

---------------------------------------------------------------------------
(* The environment *)

(* A change made in the store behind the service's back: a row rewritten   *)
(* or removed by direct SQL.  No handler runs, so no cache key is touched. *)
direct_store_mutation(task_id, remove) ==
    /\ Exists(task_id)
    /\ tasks' = IF remove
                THEN [id \in DOMAIN tasks \ {task_id} |-> tasks[id]]
                ELSE [tasks EXCEPT ![task_id].title = <<"z">>]
    /\ resp' = Response("direct_store_mutation", task_id, 0,
                        [message |-> "none"], <<>>, 0, "ok")
    /\ UNCHANGED <<impl, redis_client, nextId, cache, now, mut>>

(* Time passes; Redis drops the keys whose time-to-live has elapsed. *)
TickSteps == {LIST_TTL, TASK_TTL}

redis_expire(c, t) == [k \in {x \in DOMAIN c : c[x].exp > t} |-> c[k]]

tick(dt) ==
    /\ now + dt <= MaxClock
    /\ now' = now + dt
    /\ cache' = redis_expire(cache, now + dt)
    /\ resp' = Response("tick", 0, 0, [message |-> "none"], <<>>, 0, "ok")
    /\ lapsed' = lapsed \cup (DOMAIN cache \ DOMAIN redis_expire(cache, now + dt))
    /\ UNCHANGED <<impl, redis_client, tasks, nextId, mut>>

---------------------------------------------------------------------------
(* The specification *)

(* no request is in flight: every request of a behaviour runs alone *)
NoRace == [get |-> "idle", upd |-> "idle", id |-> 0, data |-> <<>>,
           row |-> <<>>, log |-> <<>>]

(* The store outlives the process: at start it holds the row the test     *)
(* fixture sample_task inserts.                                            *)
sample_task ==
    [id           |-> 1,
     title        |-> <<"T", "e", "s", "t">>,
     description  |-> <<"D">>,
     completed    |-> FALSE,
     priority     |-> 1,
     due_date     |-> None,
     created_at   |-> <<0, 0>>,
     updated_at   |-> <<0, 0>>,
     completed_at |-> None,
     user_id      |-> None]

Init ==
    /\ impl \in {"routes", "app"}
    /\ redis_client \in BOOLEAN
    /\ (impl = "app" => redis_client)
    /\ tasks = [id \in {1} |-> sample_task]
    /\ nextId = 2
    /\ cache = <<>>
    /\ now = 0
    /\ resp = Response("init", 0, 0, [message |-> "none"], <<>>, 0, "ok")
    /\ req = None
    /\ mut = [id \in Ids |-> NoMutation]
    /\ lapsed = {}
    /\ steps = 0
    /\ race = NoRace

GetTask == \E task_id \in Ids, rget, rset, dbOk \in BOOLEAN :
               get_task(task_id, rget, rset, dbOk) /\ req' = None

GetTasks == \E query_string \in QueryStrings, rset, dbOk \in BOOLEAN :
                get_tasks(query_string, rset, dbOk) /\ req' = None

CreateTask == \E data \in CreateInputs, db \in DbStates, order \in scan_orders :
                  \E failAt \in fail_points(<<>>, order), later \in DriftSteps :
                      create_task(data, db, order, failAt, later) /\ req' = data

UpdateTask == \E task_id \in Ids, data \in UpdateInputs, db \in DbStates,
                 order \in scan_orders :
                  \E failAt \in fail_points(item_keys(task_id), order) :
                      update_task(task_id, data, db, order, failAt) /\ req' = data

DeleteTask == \E task_id \in Ids, db \in DbStates, order \in scan_orders :
                  \E failAt \in fail_points(item_keys(task_id), order) :
                      delete_task(task_id, db, order, failAt) /\ req' = None

BatchCreateTasks == \E items \in BatchInputs, db \in DbStates, order \in scan_orders :
                        \E failAt \in fail_points(<<>>, order) :
                            /\ batch_create_tasks(items, db, order, failAt)
                            /\ req' = [tasks |-> items]

DirectStoreMutation == \E task_id \in Ids, remove \in BOOLEAN :
                           direct_store_mutation(task_id, remove) /\ req' = None

Tick == \E dt \in TickSteps : tick(dt) /\ req' = None

Step == steps < MaxSteps /\ steps' = steps + 1

Next ==
    \/ Step /\ GetTask /\ UNCHANGED <<lapsed, race>>
    \/ Step /\ GetTasks /\ UNCHANGED <<lapsed, race>>
    \/ Step /\ CreateTask /\ UNCHANGED <<lapsed, race>>
    \/ Step /\ UpdateTask /\ UNCHANGED <<lapsed, race>>
    \/ Step /\ DeleteTask /\ UNCHANGED <<lapsed, race>>
    \/ Step /\ BatchCreateTasks /\ UNCHANGED <<lapsed, race>>
    \/ Step /\ DirectStoreMutation /\ UNCHANGED <<lapsed, race>>
    \/ Step /\ Tick /\ UNCHANGED race

Spec == Init /\ [][Next]_vars

---------------------------------------------------------------------------
(* The field-level specification: the same service, its requests drawn     *)
(* from bodies and queries that exercise every field of a task, the        *)
(* filters of the list, the statistics and the health probe; every cache   *)
(* call of a mutation succeeds and its commit goes through.                *)

FieldCreateInputs ==
    { [title |-> <<"a">>, priority |-> 3, due_date |-> <<"D">>],
      [title |-> <<"E", "f">>, priority |-> 5, completed |-> TRUE],
      [title |-> <<"h">>, due_date |-> <<"x">>] }

FieldUpdateInputs ==
    { [priority |-> 2],
      [due_date |-> None],
      [due_date |-> <<"D">>, description |-> <<"e", " ">>],
      [title |-> <<"T", "e", "s", "t">>],
      [completed |-> TRUE],
      [due_date |-> <<"x">>, priority |-> 3],
      [id |-> 9, user_id |-> 7, created_at |-> <<"D">>, title |-> <<"k">>] }

FieldQueryStrings ==
    { "", "completed=true", "completed=False", "priority=2", "priority=0",
      "search=A", "search=_", "completed=False&priority=1&search=E" }

FieldCreateTask ==
    \E data \in FieldCreateInputs, order \in scan_orders :
        create_task(data, "ok", order, 0, 0) /\ req' = data

FieldUpdateTask ==
    \E task_id \in Ids, data \in FieldUpdateInputs, order \in scan_orders :
        update_task(task_id, data, "ok", order, 0) /\ req' = data

FieldDeleteTask ==
    \E task_id \in Ids, order \in scan_orders :
        delete_task(task_id, "ok", order, 0) /\ req' = None

FieldBatchInputs ==
    { << [title |-> <<"a", " ">>, priority |-> 3, due_date |-> <<"D">>,
          completed |-> TRUE],
         [description |-> <<"d">>, priority |-> 2],
         [title |-> <<"b">>, description |-> <<" ", "d">>, due_date |-> <<"x">>,
          completed_at |-> <<"D">>] >> }

FieldBatchCreateTasks == \E items \in FieldBatchInputs, order \in scan_orders :
                             /\ batch_create_tasks(items, "ok", order, 0)
                             /\ req' = [tasks |-> items]

FieldGetTasks ==
    \E query_string \in FieldQueryStrings, dbOk \in BOOLEAN :
        get_tasks(query_string, TRUE, dbOk) /\ req' = request_args(query_string)

GetStats == \E dbOk \in BOOLEAN : get_stats(dbOk) /\ req' = None

HealthCheck == \E dbOk, rping \in BOOLEAN : health_check(dbOk, rping) /\ req' = None

FieldNext ==
    \/ Step /\ FieldCreateTask /\ UNCHANGED <<lapsed, race>>
    \/ Step /\ FieldUpdateTask /\ UNCHANGED <<lapsed, race>>
    \/ Step /\ FieldDeleteTask /\ UNCHANGED <<lapsed, race>>
    \/ Step /\ FieldGetTasks /\ UNCHANGED <<lapsed, race>>
    \/ Step /\ FieldBatchCreateTasks /\ UNCHANGED <<lapsed, race>>
    \/ Step /\ GetStats /\ UNCHANGED <<lapsed, race>>
    \/ Step /\ HealthCheck /\ UNCHANGED <<lapsed, race>>
    \/ Step /\ Tick /\ UNCHANGED race

FieldSpec == Init /\ [][FieldNext]_vars

---------------------------------------------------------------------------
(* Two requests at once.  The handlers take no lock and each worker runs   *)
(* its handler statement by statement, so the store and cache calls of a   *)
(* GET /api/tasks/<id> and of a PUT /api/tasks/<id> of the same id         *)
(* interleave freely.  race.get and race.upd say which call each handler   *)
(* is about to make, race.row is the row the GET has loaded, race.log the  *)
(* calls made so far, in order.  Every cache call succeeds.                *)

Running(task_id, data) ==
    [get  |-> IF use_cache THEN "lookup" ELSE "query",
     upd  |-> "commit",
     id   |-> task_id,
     data |-> data,
     row  |-> <<>>,
     log  |-> <<>>]

Logged(event) == Append(race.log, event)

(* the two requests arrive *)
race_start(task_id, data) ==
    /\ race = NoRace
    /\ race' = Running(task_id, data)
    /\ req' = data
    /\ UNCHANGED <<impl, redis_client, tasks, nextId, cache, now, resp, mut,
                   lapsed, steps>>

(* get_task: app.redis_client.get(cache_key) *)
get_task_lookup ==
    /\ race.get = "lookup"
    /\ IF cache_lookup(race.id, TRUE) = "hit"
       THEN /\ resp' = Response("get_task", race.id, 200,
                                json_loads(cache[TaskKey(race.id)].val),
                                << [fn |-> "get", key |-> TaskKey(race.id),
                                    ok |-> TRUE] >>, 0, "ok")
            /\ race' = [race EXCEPT !.get = "done", !.log = Logged("lookup")]
       ELSE /\ UNCHANGED resp
            /\ race' = [race EXCEPT !.get = "query", !.log = Logged("lookup")]
    /\ UNCHANGED <<impl, redis_client, tasks, nextId, cache, now, req, mut,
                   lapsed, steps>>

(* get_task: Task.query.get(task_id), the 404, and to_dict of the row *)
get_task_query ==
    /\ race.get = "query"
    /\ IF ~Exists(race.id)
       THEN /\ resp' = Response("get_task", race.id, 404, Error("Task not found"),
                                <<>>, 1, "ok")
            /\ race' = [race EXCEPT !.get = "done", !.log = Logged("query")]
       ELSE IF use_cache
       THEN /\ UNCHANGED resp
            /\ race' = [race EXCEPT !.get = "setex", !.row = tasks[race.id],
                                    !.log = Logged("query")]
       ELSE /\ resp' = Response("get_task", race.id, 200, to_dict(tasks[race.id]),
                                <<>>, 1, "ok")
            /\ race' = [race EXCEPT !.get = "done", !.row = tasks[race.id],
                                    !.log = Logged("query")]
    /\ UNCHANGED <<impl, redis_client, tasks, nextId, cache, now, req, mut,
                   lapsed, steps>>

(* get_task: app.redis_client.setex(cache_key, 60, json.dumps(task_dict)) *)
get_task_setex ==
    /\ race.get = "setex"
    /\ cache' = redis_setex(cache, TaskKey(race.id), TASK_TTL,
                            json_dumps(to_dict(race.row)))
    /\ resp' = Response("get_task", race.id, 200, to_dict(race.row),
                        << [fn |-> "setex", key |-> TaskKey(race.id),
                            ok |-> TRUE] >>, 1, "ok")
    /\ race' = [race EXCEPT !.get = "done", !.log = Logged("setex")]
    /\ UNCHANGED <<impl, redis_client, tasks, nextId, now, req, mut, lapsed,
                   steps>>

(* mutant of after_commit_step: the handler returns right after the commit *)
after_commit_step_returns == "done"

(* what update_task does after db.session.commit() *)
after_commit_step == IF use_cache THEN "delete" ELSE "done"

(* update_task: the lookup, the test of the body, the field assignments    *)
(* and db.session.commit()                                                 *)
update_task_commit ==
    LET check == update_precheck(race.id, race.data)
    IN  /\ race.upd = "commit"
        /\ IF check = "not_found"
           THEN /\ resp' = Response("update_task", race.id, 404,
                                    Error("Task not found"), <<>>, 1, "ok")
                /\ race' = [race EXCEPT !.upd = "done", !.log = Logged("commit")]
                /\ UNCHANGED tasks
           ELSE IF check = "no_data"
           THEN /\ resp' = Response("update_task", race.id, 400,
                                    Error("No data provided"), <<>>, 1, "ok")
                /\ race' = [race EXCEPT !.upd = "done", !.log = Logged("commit")]
                /\ UNCHANGED tasks
           ELSE IF due_date_raises(race.data)
           THEN /\ resp' = Response("update_task", race.id, 400,
                                    Error("Invalid data format"), <<>>, 1, "ok")
                /\ race' = [race EXCEPT !.upd = "done", !.log = Logged("commit")]
                /\ UNCHANGED tasks
           ELSE LET task == flush_update(tasks[race.id],
                                         apply_patch(tasks[race.id], race.data))
                IN  /\ tasks' = [tasks EXCEPT ![race.id] = task]
                    /\ race' = [race EXCEPT !.upd = after_commit_step,
                                            !.log = Logged("commit")]
                    /\ IF after_commit_step = "done"
                       THEN resp' = Response("update_task", race.id, 200,
                                             to_dict(task), <<>>, 1, "ok")
                       ELSE UNCHANGED resp
        /\ UNCHANGED <<impl, redis_client, nextId, cache, now, req, mut, lapsed,
                       steps>>

(* update_task: app.redis_client.delete(f"task:{task_id}") *)
update_task_delete ==
    /\ race.upd = "delete"
    /\ cache' = redis_delete(cache, {item_keys(race.id)[1]})
    /\ race' = [race EXCEPT !.upd = "scan", !.log = Logged("delete")]
    /\ UNCHANGED <<impl, redis_client, tasks, nextId, now, resp, req, mut,
                   lapsed, steps>>

(* update_task: the list keys deleted (scan_iter and delete in routes.py,  *)
(* delete("tasks:*") in app.py) and the response                           *)
update_task_scan(order) ==
    LET listed == invalidate_calls(<<>>, order, 0)
        calls  == invalidate_calls(item_keys(race.id), order, 0)
    IN  /\ race.upd = "scan"
        /\ cache' = redis_delete(cache, deleted_keys(listed))
        /\ resp' = Response("update_task", race.id, 200, to_dict(tasks[race.id]),
                            calls, 1, "ok")
        /\ race' = [race EXCEPT !.upd = "done", !.log = Logged("scan")]
        /\ UNCHANGED <<impl, redis_client, tasks, nextId, now, req, mut, lapsed,
                       steps>>

RaceStart == \E task_id \in Ids, data \in UpdateInputs : race_start(task_id, data)

UpdateTaskScan == \E order \in scan_orders : update_task_scan(order)

(* Requests that ran alone before the two arrive fill the store and the    *)
(* cache.                                                                  *)
Alone == race = NoRace /\ Step /\ UNCHANGED <<lapsed, race>>

RaceNext ==
    \/ Alone /\ GetTask
    \/ Alone /\ CreateTask
    \/ RaceStart
    \/ get_task_lookup
    \/ get_task_query
    \/ get_task_setex
    \/ update_task_commit
    \/ update_task_delete
    \/ UpdateTaskScan

RaceSpec == Init /\ [][RaceNext]_vars

---------------------------------------------------------------------------
(* Vocabulary of the properties *)

(* the step just taken is a request (or event) named op *)
IsStep(op) == steps' = steps + 1 /\ resp'.op = op

Failed(calls) == \E i \in 1..Len(calls) : ~calls[i].ok

(* what a service without a cache answers to Get(id) in the current state *)
StoreStatus(id) == IF Exists(id) THEN 200 ELSE 404

StoreBody(id) == IF Exists(id) THEN to_dict(tasks[id]) ELSE Error("Task not found")

ListKeysIn(c) == {k \in DOMAIN c : k.ns = "tasks"}

---------------------------------------------------------------------------
(* C1: when Get(id) has populated task:{id} and Update(id) then succeeds    *)
(* with its cache calls succeeding, the next Get(id) reads the store and    *)
(* returns the task as stored now, not the value cached before the Update.  *)
C1_GetAfterUpdateIsFresh ==
    [][\A id \in Ids :
          (/\ IsStep("get_task") /\ resp'.id = id /\ resp'.db = "ok"
           /\ mut[id].kind = "update" /\ mut[id].inval /\ ~mut[id].seen)
          => /\ resp'.reads = 1
             /\ resp'.status = StoreStatus(id)
             /\ resp'.body = StoreBody(id)]_vars

C1_Witness ==
    \E id \in Ids :
        /\ resp.op = "get_task" /\ resp.id = id /\ resp.status = 200
        /\ resp.calls # <<>> /\ ~Failed(resp.calls)
        /\ mut[id].kind = "update" /\ mut[id].had /\ mut[id].inval
        /\ resp.body = to_dict(tasks[id])
        /\ resp.body # to_dict(sample_task)

C3_CreateClearsListCache ==
    [][(/\ IsStep("create_task") /\ resp'.status = 201
        /\ redis_client /\ ~Failed(resp'.calls))
       => ListKeysIn(cache') = {}]_vars

(* C4: after a successful Update(id) with the cache reachable, the cache   *)
(* holds no entry under task:{id} and no list-cache entry written before.  *)
C4_UpdateClearsCaches ==
    [][\A id \in Ids :
          (/\ IsStep("update_task") /\ resp'.id = id /\ resp'.status = 200
           /\ redis_client /\ ~Failed(resp'.calls))
          => /\ TaskKey(id) \notin DOMAIN cache'
             /\ ListKeysIn(cache') = {}]_vars

(* C5: when the cache holds an entry under task:{id} (and the lookup       *)
(* succeeds), Get(id) returns exactly the cached representation with 200   *)
(* and reads nothing from the store, whatever the store holds for id.      *)
C5_CacheHitServedWithoutStore ==
    [][\A id \in Ids :
          (/\ IsStep("get_task") /\ resp'.id = id
           /\ redis_client /\ TaskKey(id) \in DOMAIN cache
           /\ resp'.calls # <<>> /\ resp'.calls[1].ok)
          => /\ resp'.status = 200
             /\ resp'.body = json_loads(cache[TaskKey(id)].val)
             /\ resp'.reads = 0
             /\ Len(resp'.calls) = 1
             /\ cache' = cache /\ tasks' = tasks]_vars

C5_Witness ==
    \E id \in Ids :
        /\ resp.op = "get_task" /\ resp.id = id /\ resp.status = 200
        /\ resp.reads = 0
        /\ resp.db = "down"
        /\ (~Exists(id) \/ resp.body # to_dict(tasks[id]))

(* C6: when the cache has no entry under task:{id} or the lookup fails,    *)
(* Get(id) reads the store; for an existing task it issues the write of    *)
(* the store's representation under task:{id} with a TTL of 60 seconds and *)
(* returns it; for a missing one it returns 404 and writes nothing.        *)
C6_CacheMissReadsStoreAndPopulates ==
    [][\A id \in Ids :
          (/\ IsStep("get_task") /\ resp'.id = id /\ resp'.db = "ok"
           /\ redis_client
           /\ (TaskKey(id) \notin DOMAIN cache \/ ~resp'.calls[1].ok))
          => /\ resp'.reads = 1
             /\ IF Exists(id)
                THEN /\ resp'.status = 200
                     /\ resp'.body = to_dict(tasks[id])
                     /\ Len(resp'.calls) = 2
                     /\ resp'.calls[2].fn = "setex"
                     /\ resp'.calls[2].key = TaskKey(id)
                     /\ IF resp'.calls[2].ok
                        THEN cache' = [k \in DOMAIN cache \cup {TaskKey(id)} |->
                                          IF k = TaskKey(id)
                                          THEN [val |-> json_dumps(to_dict(tasks[id])),
                                                exp |-> now + 60, at |-> now]
                                          ELSE cache[k]]
                        ELSE cache' = cache
                ELSE /\ resp'.status = 404
                     /\ Len(resp'.calls) = 1
                     /\ cache' = cache]_vars

C6_Witness ==
    \E id \in Ids :
        /\ resp.op = "get_task" /\ resp.id = id /\ resp.status = 200
        /\ resp.reads = 1 /\ Len(resp.calls) = 2 /\ ~resp.calls[1].ok
        /\ resp.calls[2].ok
        /\ TaskKey(id) \in DOMAIN cache
        /\ cache[TaskKey(id)].exp = now + 60
        /\ now > 0

(* C7: a cached single-item entry is served for at most 60 seconds: no     *)
(* entry under task:{id} outlives 60 seconds from its write, whether or    *)
(* not an invalidation failed, a value served from the cache was written   *)
(* less than 60 seconds ago, and a Get(id) that finds no entry returns the *)
(* store's current value.                                                  *)
C7_StalenessBoundedByTTL ==
    [][/\ \A key \in DOMAIN cache' :
             key.ns = "task" => now' - cache'[key].at < 60
       /\ \A id \in Ids :
             (IsStep("get_task") /\ resp'.id = id /\ resp'.reads = 0
              /\ resp'.status = 200)
             => /\ TaskKey(id) \in DOMAIN cache
                /\ now - cache[TaskKey(id)].at < 60
       /\ \A id \in Ids :
             (IsStep("get_task") /\ resp'.id = id /\ resp'.db = "ok"
              /\ TaskKey(id) \notin DOMAIN cache)
             => /\ resp'.status = StoreStatus(id)
                /\ resp'.body = StoreBody(id)]_vars

C7_Witness ==
    \E id \in Ids :
        /\ resp.op = "get_task" /\ resp.id = id /\ resp.status = 200
        /\ TaskKey(id) \in lapsed
        /\ resp.reads = 1 /\ resp.calls[1].ok
        /\ resp.body = to_dict(tasks[id])

(* C8: for List and Get a failure of a cache call never changes the        *)
(* response: it is the one the store alone gives, and an error (500) is    *)
(* returned only when the store fails.                                     *)
C8_ReadsSurviveCacheFailure ==
    [][/\ \A id \in Ids :
             (IsStep("get_task") /\ resp'.id = id /\ Failed(resp'.calls))
             => IF resp'.db = "ok"
                THEN /\ resp'.status = StoreStatus(id)
                     /\ resp'.body = StoreBody(id)
                ELSE resp'.status = 500
       /\ (IsStep("get_tasks") /\ Failed(resp'.calls))
          => /\ resp'.status = 200
             /\ \E q \in QueryStrings :
                   /\ resp'.calls[1].key = ListKey(q)
                   /\ \E o \in query_orders(query_filter(request_args(q))) :
                         resp'.body =
                             [items |-> [i \in DOMAIN o |-> to_dict(tasks[o[i]])]]
       /\ ((IsStep("get_task") \/ IsStep("get_tasks")) /\ resp'.status = 500)
          => resp'.db # "ok"]_vars

C8_Witness ==
    \E id \in Ids :
        /\ resp.op = "get_task" /\ resp.id = id /\ resp.status = 200
        /\ Len(resp.calls) = 2 /\ ~resp.calls[1].ok /\ ~resp.calls[2].ok
        /\ TaskKey(id) \in DOMAIN cache
        /\ resp.body # json_loads(cache[TaskKey(id)].val)

(* C9: for Create, Update, Delete and BatchCreate a failure of the cache   *)
(* invalidation neither undoes nor fails the mutation: the store change    *)
(* stays committed and the success response is returned.                   *)
C9_MutationsSurviveInvalidationFailure ==
    [][/\ (IsStep("create_task") /\ Failed(resp'.calls))
          => /\ resp'.status = 201
             /\ resp'.id \notin DOMAIN tasks /\ resp'.id \in DOMAIN tasks'
             /\ resp'.body = to_dict(tasks'[resp'.id])
       /\ (IsStep("update_task") /\ Failed(resp'.calls))
          => /\ resp'.status = 200
             /\ resp'.body = to_dict(tasks'[resp'.id])
             /\ \E data \in UpdateInputs :
                   tasks'[resp'.id] =
                       flush_update(tasks[resp'.id],
                                    apply_patch(tasks[resp'.id], data))
       /\ (IsStep("delete_task") /\ Failed(resp'.calls))
          => /\ resp'.status = 200
             /\ resp'.id \in DOMAIN tasks /\ resp'.id \notin DOMAIN tasks'
       /\ (IsStep("batch_create_tasks") /\ Failed(resp'.calls))
          => /\ resp'.status = 201
             /\ Cardinality(DOMAIN tasks' \ DOMAIN tasks) = resp'.body.total_created
             /\ \A k \in 1..Len(resp'.body.created) :
                   /\ resp'.body.created[k].id \in DOMAIN tasks' \ DOMAIN tasks
                   /\ resp'.body.created[k] = to_dict(tasks'[resp'.body.created[k].id])]_vars

C9_Witness ==
    \E id \in Ids :
        /\ resp.op = "update_task" /\ resp.id = id /\ resp.status = 200
        /\ Failed(resp.calls)
        /\ mut[id].had /\ ~mut[id].inval
        /\ TaskKey(id) \in DOMAIN cache
        /\ resp.body = to_dict(tasks[id])
        /\ json_loads(cache[TaskKey(id)].val) # resp.body

(* C10: with no cache configured no operation attempts a cache call, and   *)
(* Get(id) returns exactly the store's current representation (or 404).    *)
C10_StoreOnlyWithoutCache ==
    [][~redis_client
       => /\ resp'.calls = <<>>
          /\ DOMAIN cache' = {}
          /\ \A id \in Ids :
                (IsStep("get_task") /\ resp'.id = id)
                => IF resp'.db = "ok"
                   THEN /\ resp'.status = StoreStatus(id)
                        /\ resp'.body = StoreBody(id)
                        /\ resp'.reads = 1
                   ELSE resp'.status = 500]_vars

C10_Witness ==
    \E id \in Ids :
        /\ ~redis_client
        /\ resp.op = "get_task" /\ resp.id = id /\ resp.status = 200
        /\ mut[id].kind = "update" /\ mut[id].seen
        /\ resp.body = to_dict(tasks[id])
        /\ resp.body # to_dict(sample_task)

---------------------------------------------------------------------------
(* the step just taken is one of the four mutations *)
IsMutationStep ==
    \/ IsStep("create_task") \/ IsStep("update_task")
    \/ IsStep("delete_task") \/ IsStep("batch_create_tasks")

(* C11: Create, Update, Delete and BatchCreate never write a value into    *)
(* the cache: their cache calls are deletions (and the key scan that finds *)
(* what to delete), issued only after the store commit has succeeded;      *)
(* a cache value appears or changes only in a List or a Get.               *)
C11_MutationsOnlyInvalidate ==
    [][/\ IsMutationStep
          => /\ \A i \in 1..Len(resp'.calls) :
                    resp'.calls[i].fn \in {"delete", "scan_iter"}
             /\ \A key \in DOMAIN cache' :
                    key \in DOMAIN cache /\ cache'[key] = cache[key]
             /\ (resp'.calls # <<>> \/ cache' # cache)
                => /\ resp'.db = "ok"
                   /\ resp'.status \in {200, 201}
       /\ (\E key \in DOMAIN cache' :
              key \notin DOMAIN cache \/ cache'[key] # cache[key])
          => (IsStep("get_task") \/ IsStep("get_tasks"))]_vars

C11_Witness ==
    \E id \in Ids :
        /\ resp.op = "delete_task" /\ resp.id = id /\ resp.status = 200
        /\ Len(resp.calls) >= 2 /\ ~Failed(resp.calls)
        /\ mut[id].had /\ TaskKey(id) \notin DOMAIN cache

(* C12: Create with only a title X, followed immediately by Get on the     *)
(* returned id, returns a task with title X, completed false, priority 1,  *)
(* completed_at null and created_at equal to updated_at.                   *)
C12_CreateThenGetRoundTrip ==
    [][\A id \in Ids :
          (/\ IsStep("get_task") /\ resp'.id = id /\ resp'.db = "ok"
           /\ resp.op = "create_task" /\ resp.status = 201 /\ resp.id = id
           /\ DOMAIN req = {"title"})
          => /\ resp'.status = 200
             /\ resp'.body.title = strip(req.title)
             /\ resp'.body.completed = FALSE
             /\ resp'.body.priority = 1
             /\ resp'.body.completed_at = None
             /\ resp'.body.created_at = resp'.body.updated_at]_vars

(* C13: Create with the title absent, or blank after trimming, returns 400, *)
(* adds no task to the store and issues no cache call; Create with a       *)
(* non-blank title (the store available, the rest of the body well formed) *)
(* returns 201 and stores the row with the trimmed title.                  *)
C13_CreateRequiresTitle ==
    [][IsStep("create_task")
       => LET data == req'
          IN  IF data = <<>> \/ "title" \notin DOMAIN data \/ strip(data.title) = <<>>
              THEN /\ resp'.status = 400
                   /\ tasks' = tasks
                   /\ cache' = cache
                   /\ resp'.calls = <<>>
              ELSE (resp'.db = "ok" /\ ~due_date_raises(data))
                   => /\ resp'.status = 201
                      /\ resp'.id \notin DOMAIN tasks
                      /\ DOMAIN tasks' = DOMAIN tasks \cup {resp'.id}
                      /\ tasks'[resp'.id].title = strip(data.title)
                      /\ resp'.body.title = strip(data.title)]_vars

C13_Witness ==
    /\ resp.op = "create_task" /\ resp.status = 400
    /\ resp.body = Error("Title is required")
    /\ ListKeysIn(cache) # {}
    /\ DOMAIN tasks = {1}

(* C14: in every reachable state every task in the store has a title that  *)
(* is non-empty after trimming whitespace.                                 *)
C14_StoredTitlesNonBlank ==
    \A id \in DOMAIN tasks : strip(tasks[id].title) # <<>>

(* C15: for a successful Update whose patch contains completed: a change   *)
(* from false to true sets completed_at to a non-null timestamp, a change  *)
(* from true to false clears it to null, and a value equal to the stored   *)
(* one leaves completed and completed_at exactly as they were.             *)
C15_CompletionTransitions ==
    [][\A task_id \in Ids :
          (/\ IsStep("update_task") /\ resp'.id = task_id /\ resp'.status = 200
           /\ "completed" \in DOMAIN req')
          => LET data == req'
                 old  == tasks[task_id]
                 new  == tasks'[task_id]
             IN  /\ new.completed = data.completed
                 /\ (~old.completed /\ data.completed)
                    => new.completed_at # None
                 /\ (old.completed /\ ~data.completed)
                    => new.completed_at = None
                 /\ (old.completed = data.completed)
                    => new.completed_at = old.completed_at]_vars

C15_Witness ==
    \E id \in Ids :
        /\ resp.op = "update_task" /\ resp.id = id /\ resp.status = 200
        /\ now > 0
        /\ tasks[id].completed
        /\ tasks[id].completed_at # None
        /\ tasks[id].completed_at[1] < now
        /\ tasks[id].updated_at[1] < now
        /\ req = [completed |-> TRUE]

(* C16: for every stored task completed_at is non-null exactly when        *)
(* completed is true and that value was reached by an Update from false to *)
(* true.  Step by step: completed_at is never non-null while completed is  *)
(* false; a row enters the store with completed_at null, also when it is   *)
(* created completed; completed turns true on a stored row only in an      *)
(* Update, which stamps completed_at; while completed stays true           *)
(* completed_at keeps its value.                                           *)
C16_CompletedAtTracksTransition ==
    [][/\ \A id \in DOMAIN tasks :
             tasks[id].completed_at # None => tasks[id].completed
       /\ \A id \in DOMAIN tasks' :
             tasks'[id].completed_at # None => tasks'[id].completed
       /\ \A id \in DOMAIN tasks' \ DOMAIN tasks :
             tasks'[id].completed_at = None
       /\ \A id \in DOMAIN tasks \cap DOMAIN tasks' :
             /\ (~tasks[id].completed /\ tasks'[id].completed)
                => /\ IsStep("update_task") /\ resp'.id = id
                   /\ tasks'[id].completed_at # None
             /\ (tasks[id].completed /\ tasks'[id].completed)
                => tasks'[id].completed_at = tasks[id].completed_at]_vars

C16_Witness ==
    \E id, other \in DOMAIN tasks :
        /\ tasks[id].completed /\ tasks[id].completed_at = None
        /\ tasks[other].completed /\ tasks[other].completed_at # None
        /\ resp.op = "update_task" /\ resp.id = other /\ resp.status = 200

(* C17: BatchCreate processes every item on its own: an item without a     *)
(* title, or whose construction raises, gives one entry of errors carrying *)
(* the item's index (from 0) and does not stop the later items; every      *)
(* other item appears in created, in input order; total_created plus       *)
(* total_errors is the number of items, each index accounted for once.     *)
C17_BatchItemsIndependent ==
    [][(IsStep("batch_create_tasks") /\ resp'.status = 201)
       => LET items   == req'.tasks
              body    == resp'.body
              inError == {body.errors[k].index + 1 : k \in 1..Len(body.errors)}
              kept    == (1..Len(items)) \ inError
              rank(i) == Cardinality({j \in kept : j <= i})
          IN  /\ body.total_created = Len(body.created)
              /\ body.total_errors = Len(body.errors)
              /\ body.total_created + body.total_errors = Len(items)
              /\ inError \subseteq 1..Len(items)
              /\ Cardinality(inError) = Len(body.errors)
              /\ \A i \in 1..Len(items) :
                    i \in inError
                    <=> \/ "title" \notin DOMAIN items[i]
                        \/ dict_get(items[i], "title_is_null", FALSE)
              /\ \A k, l \in 1..Len(body.errors) :
                    k < l => body.errors[k].index < body.errors[l].index
              /\ \A i \in kept :
                    /\ rank(i) \in 1..Len(body.created)
                    /\ body.created[rank(i)].title = strip(items[i].title)]_vars

C17_Witness ==
    /\ resp.op = "batch_create_tasks" /\ resp.status = 201
    /\ resp.body.total_created = 2 /\ resp.body.total_errors = 2
    /\ resp.body.errors[1].index = 1 /\ resp.body.errors[2].index = 3
    /\ resp.body.created[1].title = <<"g">>
    /\ resp.body.created[2].title = <<>>

(* C18: BatchCreate commits the constructed items in one transaction:      *)
(* after a success the store has gained exactly the tasks listed in        *)
(* created (none of the items reported in errors) and kept every other     *)
(* row; when the commit fails it has gained none of the batch's items.     *)
C18_BatchCommitsTogether ==
    [][IsStep("batch_create_tasks")
       => /\ resp'.status \in {201, 500}
          /\ resp'.status = 201
             => LET created == resp'.body.created
                    newIds  == {created[k].id : k \in 1..Len(created)}
                IN  /\ resp'.db = "ok"
                    /\ Cardinality(newIds) = Len(created)
                    /\ newIds \cap DOMAIN tasks = {}
                    /\ DOMAIN tasks' = DOMAIN tasks \cup newIds
                    /\ \A k \in 1..Len(created) :
                          to_dict(tasks'[created[k].id]) = created[k]
                    /\ \A id \in DOMAIN tasks : tasks'[id] = tasks[id]
          /\ resp'.db # "ok" => resp'.status = 500
          /\ resp'.status = 500 => tasks' = tasks]_vars

C18_Witness ==
    /\ resp.op = "batch_create_tasks" /\ resp.status = 201
    /\ Len(resp.body.created) = 2 /\ Len(resp.body.errors) = 2
    /\ Cardinality(DOMAIN tasks) = 3
    /\ \A k \in 1..2 : to_dict(tasks[resp.body.created[k].id]) = resp.body.created[k]

(* C19: when the store fails during a Create, Update, Delete or            *)
(* BatchCreate the operation returns 500 and the store keeps exactly the   *)
(* rows it had before the operation: no part of an update's field changes  *)
(* and no part of a batch's rows stays; the store changes only in an       *)
(* operation that returns success.                                         *)
C19_StoreFailureRollsBack ==
    [][/\ IsMutationStep
          => /\ resp'.status = 500 => tasks' = tasks
             /\ tasks' # tasks => (resp'.db = "ok" /\ resp'.status \in {200, 201})
       /\ (/\ IsStep("create_task") /\ resp'.db = "commit_fails"
           /\ req' # <<>> /\ "title" \in DOMAIN req' /\ strip(req'.title) # <<>>
           /\ ~due_date_raises(req'))
          => (resp'.status = 500 /\ tasks' = tasks)
       /\ (/\ IsStep("update_task") /\ resp'.db = "commit_fails"
           /\ Exists(resp'.id) /\ req' # <<>> /\ ~due_date_raises(req'))
          => (resp'.status = 500 /\ tasks' = tasks)
       /\ (IsStep("delete_task") /\ resp'.db = "commit_fails" /\ Exists(resp'.id))
          => (resp'.status = 500 /\ tasks' = tasks)
       /\ (IsStep("batch_create_tasks") /\ resp'.db = "commit_fails")
          => (resp'.status = 500 /\ tasks' = tasks)]_vars

C19_Witness ==
    \E id \in Ids :
        /\ resp.op = "update_task" /\ resp.id = id /\ resp.status = 500
        /\ resp.db = "commit_fails"
        /\ Exists(id) /\ tasks[id] = sample_task
        /\ TaskKey(id) \in DOMAIN cache
        /\ mut[id].kind = "none"

(* C20: Update(id) on an id that is not in the store returns 404 whatever  *)
(* the patch is, the empty patch included (the lookup precedes the test of *)
(* the body), and leaves the store and every cache entry unchanged.        *)
C20_UpdateMissingIsNotFound ==
    [][\A task_id \in Ids :
          (/\ IsStep("update_task") /\ resp'.id = task_id
           /\ task_id \notin DOMAIN tasks)
          => /\ resp'.status = 404
             /\ resp'.body = Error("Task not found")
             /\ tasks' = tasks
             /\ cache' = cache
             /\ resp'.calls = <<>>]_vars

C20_Witness ==
    \E id \in Ids :
        /\ resp.op = "update_task" /\ resp.id = id /\ resp.status = 404
        /\ id \notin DOMAIN tasks
        /\ req = <<>>
        /\ ListKeysIn(cache) # {}

---------------------------------------------------------------------------
(* C21: a successful Update applies only the fields present in the patch:  *)
(* each of title, description, completed, priority and due_date that is    *)
(* absent from the patch keeps its stored value, and a due_date present    *)
(* with a null value is cleared to null.                                   *)
C21_UpdateAppliesOnlyPresentFields ==
    [][\A id \in Ids :
          (IsStep("update_task") /\ resp'.id = id /\ resp'.status = 200)
          => /\ \A f \in {"title", "description", "completed", "priority",
                          "due_date"} :
                   f \notin DOMAIN req' => tasks'[id][f] = tasks[id][f]
             /\ ("due_date" \in DOMAIN req' /\ req'.due_date = None)
                => tasks'[id].due_date = None]_vars

C21_Witness ==
    \E id \in Ids :
        /\ resp.op = "update_task" /\ resp.id = id /\ resp.status = 200
        /\ req = [due_date |-> None]
        /\ tasks[id].due_date = None
        /\ tasks[id].priority = 3
        /\ tasks[id].title = <<"a">>
        /\ resp.body.due_date = None

(* C22: every successful Update with a non-empty patch refreshes the       *)
(* task's updated_at to the time of the mutation, also when the values of  *)
(* the patch equal the stored ones (the time taken to the second).         *)
C22_UpdateRefreshesUpdatedAt ==
    [][\A id \in Ids :
          (/\ IsStep("update_task") /\ resp'.id = id /\ resp'.status = 200
           /\ req' # <<>>)
          => tasks'[id].updated_at[1] = now']_vars

(* C23: a successful List returns exactly the stored tasks that satisfy    *)
(* every supplied filter together, each once: completed equal to the       *)
(* requested boolean, priority equal to the requested integer, title       *)
(* containing the search string without regard to case; with no filter it  *)
(* returns all tasks.                                                      *)
C23_ListAppliesEveryFilter ==
    [][(IsStep("get_tasks") /\ resp'.status = 200)
       => LET args  == req'
              items == resp'.body.items
              satisfies(t) ==
                  /\ "completed" \in DOMAIN args
                     => t.completed = (lower(args.completed) = <<"t", "r", "u", "e">>)
                  /\ "priority" \in DOMAIN args => t.priority = args.priority
                  /\ "search" \in DOMAIN args
                     => contains(lower(t.title), lower(args.search))
              wanted == {id \in DOMAIN tasks : satisfies(tasks[id])}
          IN  /\ {items[i].id : i \in 1..Len(items)} = wanted
              /\ Len(items) = Cardinality(wanted)
              /\ \A i \in 1..Len(items) : items[i] = to_dict(tasks[items[i].id])]_vars

(* C24: a successful List returns the tasks ordered by created_at          *)
(* descending: no task of the result comes before one created later, so a  *)
(* task created later than every other task of the result is its first     *)
(* element.                                                                *)
C24_ListNewestFirst ==
    [][(IsStep("get_tasks") /\ resp'.status = 200)
       => LET items == resp'.body.items
              at(i) == tasks[items[i].id].created_at
              later(a, b) == a[1] > b[1] \/ (a[1] = b[1] /\ a[2] > b[2])
          IN  /\ \A i, j \in 1..Len(items) : i < j => ~later(at(j), at(i))
              /\ \A i \in 1..Len(items) :
                    (\A j \in 1..Len(items) : j # i => later(at(i), at(j)))
                    => i = 1]_vars

C24_Witness ==
    /\ resp.op = "get_tasks" /\ resp.status = 200
    /\ Len(resp.body.items) >= 2
    /\ resp.body.items[1].id = nextId - 1
    /\ resp.body.items[1].id > resp.body.items[2].id
    /\ resp.body.items[1].created_at[1] > resp.body.items[2].created_at[1]

(* C25: in every reachable state of the store, with N tasks, the three     *)
(* counts of the priority_breakdown Stats returns (priorities 1, 2 and 3)  *)
(* sum to N.                                                               *)
C25_PriorityBreakdownSumsToTotal ==
    [][(IsStep("get_stats") /\ resp'.status = 200)
       => LET breakdown == resp'.body.priority_breakdown
          IN  breakdown["1"] + breakdown["2"] + breakdown["3"]
                  = Cardinality(DOMAIN tasks')]_vars

(* C26: for a store with N tasks of which C are completed a successful     *)
(* Stats returns total_tasks = N, completed_tasks = C, pending_tasks =      *)
(* N - C, and completion_rate equal to C / N * 100 when N > 0 and to 0     *)
(* when N = 0 (the rate is the exact quotient <<numerator, denominator>>). *)
C26_StatsCountsAndRate ==
    [][(IsStep("get_stats") /\ resp'.status = 200)
       => LET N    == Cardinality(DOMAIN tasks)
              C    == Cardinality({id \in DOMAIN tasks : tasks[id].completed})
              body == resp'.body
              rate == body.completion_rate
          IN  /\ body.total_tasks = N
              /\ body.completed_tasks = C
              /\ body.pending_tasks = N - C
              /\ rate[2] > 0
              /\ N > 0 => rate[1] * N = C * 100 * rate[2]
              /\ N = 0 => rate[1] = 0]_vars

(* Stats on a store of three tasks, one completed: the rate is 100/3 *)
C26_Witness ==
    /\ resp.op = "get_stats" /\ resp.status = 200
    /\ resp.body.total_tasks = 3 /\ resp.body.completed_tasks = 1
    /\ resp.body.pending_tasks = 2
    /\ resp.body.completion_rate = <<100, 3>>
    /\ Cardinality(DOMAIN tasks) = 3

(* C27: Stats is read-only: it changes no task of the store and makes no   *)
(* cache read, write or delete (the cache keeps every entry as it is), and *)
(* with the store reachable its result is computed from the rows the store *)
(* holds at that moment.                                                   *)
C27_StatsIsReadOnly ==
    [][IsStep("get_stats")
       => /\ tasks' = tasks
          /\ nextId' = nextId
          /\ cache' = cache
          /\ resp'.calls = <<>>
          /\ resp'.db = "ok"
             => /\ resp'.status = 200
                /\ resp'.body.total_tasks = Cardinality(DOMAIN tasks')
                /\ resp'.body.completed_tasks =
                       Cardinality({id \in DOMAIN tasks' : tasks'[id].completed})
                /\ \A p \in 1..3 :
                      resp'.body.priority_breakdown[str(p)] =
                          Cardinality({id \in DOMAIN tasks' :
                                          tasks'[id].priority = p})]_vars

(* Stats after a Create and a List that filled the list cache *)
C27_Witness ==
    /\ resp.op = "get_stats" /\ resp.status = 200
    /\ redis_client
    /\ ListKeysIn(cache) # {}
    /\ resp.body.total_tasks = 2
    /\ resp.body.priority_breakdown["3"] = 1

(* C28: Create with a malformed due_date (and a valid title, the store     *)
(* working) does not fail: it returns 201 and the task is stored with      *)
(* due_date unset.                                                         *)
C28_CreateToleratesMalformedDueDate ==
    [][(/\ IsStep("create_task") /\ resp'.db = "ok"
        /\ req' # <<>> /\ "title" \in DOMAIN req' /\ strip(req'.title) # <<>>
        /\ "due_date" \in DOMAIN req' /\ req'.due_date # None
        /\ ~fromisoformat_ok(replace_Z(req'.due_date)))
       => /\ resp'.status = 201
          /\ resp'.id \in DOMAIN tasks' \ DOMAIN tasks
          /\ tasks'[resp'.id].due_date = None
          /\ tasks'[resp'.id].title = strip(req'.title)]_vars

(* C29: the health probe returns 200 with status healthy whenever the      *)
(* store is reachable and the cache is reachable or not configured (a      *)
(* service without a cache is never pinged and never fails for it), and    *)
(* returns 500 when the store is unreachable; it changes nothing.          *)
C29_HealthProbe ==
    [][IsStep("health_check")
       => LET pinged   == resp'.calls # <<>>
              cache_up == pinged /\ resp'.calls[1].ok
          IN  /\ pinged <=> redis_client
              /\ (resp'.db = "ok" /\ (cache_up \/ ~redis_client))
                 => (resp'.status = 200 /\ resp'.body.status = "healthy")
              /\ ~redis_client
                 => resp'.body.services.redis = "not_configured"
              /\ resp'.db = "down"
                 => (resp'.status = 500 /\ resp'.body.status = "unhealthy")
              /\ tasks' = tasks /\ cache' = cache]_vars

(* the probe of a service without a cache, the store reachable *)
C29_Witness ==
    /\ resp.op = "health_check" /\ resp.status = 200
    /\ ~redis_client
    /\ resp.calls = <<>>
    /\ resp.body.status = "healthy"
    /\ resp.body.services = [database |-> "connected", redis |-> "not_configured"]

(* C30, as claimed: in every interleaving of one Get(id) and one           *)
(* Update(id) running at once with a working cache, once both have         *)
(* finished the cache entry task:{id} is absent or equal to the store's    *)
(* current representation of the task.                                     *)
C30_RaceLeavesEntryFresh_AsClaimed ==
    (race.get = "done" /\ race.upd = "done" /\ redis_client)
    => \/ TaskKey(race.id) \notin DOMAIN cache
       \/ /\ Exists(race.id)
          /\ cache[TaskKey(race.id)].val = json_dumps(to_dict(tasks[race.id]))

(* C30, amended: the same, except in the interleavings where the Get read  *)
(* the store before the Update's commit and wrote the cache after the      *)
(* Update's delete of task:{id}: then the entry is the task as the Get     *)
(* read it, before the Update, and it expires within 60 seconds.           *)
C30_RaceLeavesEntryFresh ==
    LET key      == TaskKey(race.id)
        Has(e)   == \E i \in 1..Len(race.log) : race.log[i] = e
        pos(e)   == CHOOSE i \in 1..Len(race.log) : race.log[i] = e
    IN  (race.get = "done" /\ race.upd = "done" /\ redis_client)
        => \/ key \notin DOMAIN cache
           \/ /\ Exists(race.id)
              /\ cache[key].val = json_dumps(to_dict(tasks[race.id]))
           \/ /\ Has("query") /\ Has("setex") /\ Has("commit") /\ Has("delete")
              /\ pos("query") < pos("commit")
              /\ pos("delete") < pos("setex")
              /\ cache[key].val = json_dumps(to_dict(race.row))
              /\ cache[key].exp <= now + TASK_TTL

(* both finished after the Get looked up the cache before the commit, read *)
(* the store after it and wrote the cache after the Update's delete        *)
C30_Witness ==
    /\ race.get = "done" /\ race.upd = "done" /\ redis_client
    /\ race.log = <<"lookup", "commit", "query", "delete", "scan", "setex">>
    /\ TaskKey(race.id) \in DOMAIN cache
    /\ cache[TaskKey(race.id)].val = json_dumps(to_dict(tasks[race.id]))
    /\ race.id = 1 /\ tasks[1] # sample_task

(* C31: Update of an existing task with a non-empty due_date that cannot   *)
(* be parsed (the store working) returns success, clears the stored        *)
(* due_date to null and applies the other fields of the patch.             *)
C31_UpdateClearsUnparsableDueDate ==
    [][\A id \in Ids :
          (/\ IsStep("update_task") /\ resp'.id = id /\ resp'.db = "ok"
           /\ Exists(id)
           /\ req' # <<>> /\ "due_date" \in DOMAIN req' /\ req'.due_date # None
           /\ ~fromisoformat_ok(replace_Z(req'.due_date)))
          => /\ resp'.status = 200
             /\ tasks'[id].due_date = None
             /\ "priority" \in DOMAIN req' => tasks'[id].priority = req'.priority
             /\ resp'.body = to_dict(tasks'[id])]_vars

(* C32: Update never changes a task's id, created_at or user_id, whatever  *)
(* fields the patch contains (also one that names id, created_at or        *)
(* user_id); step by step, so after any sequence of Updates they are the   *)
(* values assigned at creation, and the id of a row is the key it was      *)
(* stored under.                                                           *)
C32_UpdateKeepsIdentity ==
    [][IsStep("update_task")
       => /\ DOMAIN tasks' = DOMAIN tasks
          /\ \A id \in DOMAIN tasks :
                /\ tasks'[id].id = tasks[id].id
                /\ tasks'[id].id = id
                /\ tasks'[id].created_at = tasks[id].created_at
                /\ tasks'[id].user_id = tasks[id].user_id]_vars

(* a successful Update, 30 seconds or more after the creation, whose patch *)
(* names id, user_id and created_at                                        *)
C32_Witness ==
    \E id \in Ids :
        /\ resp.op = "update_task" /\ resp.id = id /\ resp.status = 200
        /\ "id" \in DOMAIN req /\ "user_id" \in DOMAIN req
        /\ "created_at" \in DOMAIN req
        /\ tasks[id].title = req.title
        /\ tasks[id].id = id /\ tasks[id].user_id = None
        /\ tasks[id].updated_at[1] > tasks[id].created_at[1]

C34_ItemEntriesComeFromGet ==
    [][\A id \in Ids :
          LET key == TaskKey(id)
          IN  (/\ key \in DOMAIN cache'
               /\ (key \notin DOMAIN cache \/ cache'[key].val # cache[key].val))
              => /\ resp'.op = "get_task" /\ resp'.id = id /\ resp'.status = 200
                 /\ tasks' = tasks
                 /\ IF race.get = "setex"
                    THEN /\ race.id = id
                         /\ cache'[key].val = json_dumps(to_dict(race.row))
                    ELSE /\ Exists(id)
                         /\ cache'[key].val = json_dumps(to_dict(tasks[id]))
                 /\ resp'.body = json_loads(cache'[key].val)]_vars

(* an Update has committed a patch and its deletion of the item key        *)
(* failed: the entry left in the cache is the row an earlier Get read, not *)
(* the patched row                                                         *)
C34_Witness ==
    \E id \in Ids :
        /\ resp.op = "update_task" /\ resp.id = id /\ resp.db = "ok"
        /\ Exists(id) /\ mut[id].kind = "update"
        /\ TaskKey(id) \in DOMAIN cache
        /\ cache[TaskKey(id)].val # json_dumps(to_dict(tasks[id]))
        /\ cache[TaskKey(id)].val = json_dumps(to_dict(sample_task))

(* C35: every row a BatchCreate stores has priority 1, due_date null and   *)
(* completed_at null, whatever priority, due_date or completed_at its item *)
(* carries; its title, description and completed are those of one item of  *)
(* the payload that has a title, and each such item yields one row.        *)
C35_BatchTakesThreeFields ==
    [][(IsStep("batch_create_tasks") /\ resp'.status = 201)
       => LET items == req'.tasks
              new   == DOMAIN tasks' \ DOMAIN tasks
              given == {i \in 1..Len(items) : "title" \in DOMAIN items[i]}
          IN  /\ Cardinality(new) = Cardinality(given)
              /\ \A id \in DOMAIN tasks : tasks'[id] = tasks[id]
              /\ \A id \in new :
                    /\ tasks'[id].priority = 1
                    /\ tasks'[id].due_date = None
                    /\ tasks'[id].completed_at = None
                    /\ \E i \in given :
                          /\ tasks'[id].title = strip(items[i].title)
                          /\ tasks'[id].description =
                                strip(dict_get(items[i], "description", <<>>))
                          /\ tasks'[id].completed =
                                dict_get(items[i], "completed", FALSE)]_vars

(* a batch whose first item carries priority 3, a due_date and completed   *)
(* was stored: the row is completed, with priority 1 and no dates          *)
C35_Witness ==
    \E id \in DOMAIN tasks :
        /\ resp.op = "batch_create_tasks" /\ resp.status = 201
        /\ Len(req.tasks) = 3
        /\ req.tasks[1].priority = 3 /\ req.tasks[1].due_date = <<"D">>
        /\ tasks[id].title = <<"a">> /\ tasks[id].completed
        /\ tasks[id].priority = 1 /\ tasks[id].due_date = None
        /\ tasks[id].completed_at = None
        /\ resp.body.total_created = 2 /\ resp.body.total_errors = 1

(* C36: an Update of a stored task whose body has no fields, the database  *)
(* answering, returns 400 "No data provided", leaves every row as it was   *)
(* and makes no cache call: no item entry and no list entry is deleted.    *)
C36_EmptyPatchIsRejected ==
    [][\A task_id \in Ids :
          (/\ IsStep("update_task") /\ resp'.id = task_id
           /\ task_id \in DOMAIN tasks
           /\ req' = <<>>
           /\ resp'.db # "down")
          => /\ resp'.status = 400
             /\ resp'.body = Error("No data provided")
             /\ tasks' = tasks
             /\ nextId' = nextId
             /\ cache' = cache
             /\ resp'.calls = <<>>]_vars

(* an empty Update of a stored task was refused while the cache held the   *)
(* task's entry and a list entry, and both are still there                 *)
C36_Witness ==
    \E id \in Ids :
        /\ resp.op = "update_task" /\ resp.id = id /\ resp.status = 400
        /\ resp.body = Error("No data provided")
        /\ id \in DOMAIN tasks
        /\ req = <<>>
        /\ TaskKey(id) \in DOMAIN cache
        /\ ListKeysIn(cache) # {}

====
